---- MODULE Spec2Model ----
(***************************************************************************)
(* Model of nhmoon's week-window engine: the Week / WeekFactory helpers of *)
(* src/calendar/util.rs and the WeekWindow of src/calendar/weeks.rs.       *)
(*                                                                         *)
(* Dates are day numbers.  Day 0 would be the Sunday of the first week of  *)
(* the representable range, so the weekday index (Sunday = 0) of a date d  *)
(* is d % 7.  The representable range MinDate..MaxDate is a compressed     *)
(* image of time::Date's range: it begins on a Monday and ends on a        *)
(* Friday, as Date::MIN and Date::MAX do, and holds NumWeeks weeks, the    *)
(* first and the last of which are partial.                                *)
(*                                                                         *)
(* Option<T> values are sequences: None is <<>> and Some(x) is <<x>>.      *)
(* A VecDeque is a sequence whose head is the front.                       *)
(***************************************************************************)
EXTENDS Integers, Sequences, FiniteSets, TLC

\* ------------------------------------------------------------------ bounds
\* Number of Sunday-to-Saturday weeks that intersect the representable range.
NumWeeks == 4

\* Largest week quantity a caller passes to ensure_weeks.
MaxQty == 5

\* ------------------------------------------------------ program constants
DAYS_IN_WEEK == 7

Sunday == 0

Saturday == 6

\* Date::MIN (a Monday) and Date::MAX (a Friday).
MinDate == 1

MaxDate == DAYS_IN_WEEK * (NumWeeks - 1) + 5

Dates == MinDate..MaxDate

None == <<>>

Some(x) == <<x>>

\* --------------------------------------------------------- date utilities
index0(date) == date % DAYS_IN_WEEK

\* next_day giving up one day before the maximum date
next_day_stops_early(date) == IF date < MaxDate - 1 THEN Some(date + 1) ELSE None

next_day(date) == IF date < MaxDate THEN Some(date + 1) ELSE None

previous_day(date) == IF date > MinDate THEN Some(date - 1) ELSE None

\* successors(Some(date), next_day).skip(1).take(n), in iteration order
RECURSIVE iter_days_after(_, _)
iter_days_after(date, n) ==
    IF n = 0 \/ next_day(date) = None THEN <<>>
    ELSE <<next_day(date)[1]>> \o iter_days_after(next_day(date)[1], n - 1)

\* successors(Some(date), previous_day).skip(1).take(n), in iteration order
RECURSIVE iter_days_before(_, _)
iter_days_before(date, n) ==
    IF n = 0 \/ previous_day(date) = None THEN <<>>
    ELSE <<previous_day(date)[1]>> \o iter_days_before(previous_day(date)[1], n - 1)

\* ------------------------------------------------------------ style policy
\* Phase::for_date with the day number as the ordinal of a date in 1900
\* (year - 1900 = 0, so goldn = 1 and epact = 29).
for_date(date) ==
    LET year  == 0
        goldn == (year % 19) + 1
        e0    == (11 * goldn + 18) % 30
        epact == IF (e0 = 25 /\ goldn > 11) \/ e0 = 24 THEN e0 + 1 ELSE e0
        q     == (((((date - 1 + epact) * 6) + 11) % 177) \div 22) % 8
    IN  IF q = 0 THEN "New" ELSE IF q = 4 THEN "Full" ELSE "Normal"

date_style(date) ==
    CASE for_date(date) = "Normal" -> "BASE_STYLE"
      [] for_date(date) = "Full"   -> "FULL_MOON_STYLE"
      [] for_date(date) = "New"    -> "NEW_MOON_STYLE"

style_date(date) == [date |-> date, style |-> date_style(date)]

\* -------------------------------------------------------------------- Week
\* Week::set: slot index0(weekday) := Some(date)  (slots are 1-based here)
WeekSet(week, sd) == [week EXCEPT ![index0(sd.date) + 1] = Some(sd)]

\* Week::new: all slots None, then set(date)
WeekNew(sd) == WeekSet([j \in 1..DAYS_IN_WEEK |-> None], sd)

\* Week::get(wd)
WeekGet(week, wd) == week[wd + 1]

RECURSIVE SetAll(_, _)
SetAll(week, days) ==
    IF days = <<>> THEN week
    ELSE SetAll(WeekSet(week, style_date(Head(days))), Tail(days))

\* ------------------------------------------------------------- WeekFactory
\* make taking one day too many after the date
make_one_more_day(date) ==
    LET i  == index0(date)
        w0 == WeekNew(style_date(date))
        w1 == SetAll(w0, iter_days_before(date, i))
    IN  SetAll(w1, iter_days_after(date, DAYS_IN_WEEK - i))

\* WeekFactory::make: the week that holds a date
make(date) ==
    LET i  == index0(date)
        w0 == WeekNew(style_date(date))
        w1 == SetAll(w0, iter_days_before(date, i))
    IN  SetAll(w1, iter_days_after(date, DAYS_IN_WEEK - i - 1))

\* make, tabulated once over the representable dates
make_table == [date \in Dates |-> make(date)]

\* week_before stepping back from the Saturday of the week
week_before_from_saturday(week) ==
    IF WeekGet(week, Saturday) = None THEN None
    ELSE LET d == previous_day(WeekGet(week, Saturday)[1].date)
         IN  IF d = None THEN None ELSE Some(make_table[d[1]])

\* WeekFactory::week_before
week_before(week) ==
    IF WeekGet(week, Sunday) = None THEN None
    ELSE LET d == previous_day(WeekGet(week, Sunday)[1].date)
         IN  IF d = None THEN None ELSE Some(make_table[d[1]])

\* week_after stepping on from the Sunday of the week
week_after_from_sunday(week) ==
    IF WeekGet(week, Sunday) = None THEN None
    ELSE LET d == next_day(WeekGet(week, Sunday)[1].date)
         IN  IF d = None THEN None ELSE Some(make_table[d[1]])

\* WeekFactory::week_after
week_after(week) ==
    IF WeekGet(week, Saturday) = None THEN None
    ELSE LET d == next_day(WeekGet(week, Saturday)[1].date)
         IN  IF d = None THEN None ELSE Some(make_table[d[1]])

\* iter_weeks_before(week).take(n), in iteration order (nearest week first)
RECURSIVE iter_weeks_before(_, _)
iter_weeks_before(week, n) ==
    LET w == week_before(week)
    IN  IF n = 0 \/ w = None THEN <<>>
        ELSE <<w[1]>> \o iter_weeks_before(w[1], n - 1)

\* iter_weeks_after(week).take(n), in iteration order
RECURSIVE iter_weeks_after(_, _)
iter_weeks_after(week, n) ==
    LET w == week_after(week)
    IN  IF n = 0 \/ w = None THEN <<>>
        ELSE <<w[1]>> \o iter_weeks_after(w[1], n - 1)

\* for w in items { deque.push_front(w) }
RECURSIVE push_front_each(_, _)
push_front_each(deque, items) ==
    IF items = <<>> THEN deque
    ELSE push_front_each(<<Head(items)>> \o deque, Tail(items))

\* with_capacity rounding the capacity up to a power of two minus one
with_capacity_rounded(capacity) ==
    CHOOSE c \in capacity..(2 * capacity) :
        /\ \E k \in 1..(capacity + 1) : c = 2 ^ k - 1
        /\ \A b \in capacity..(c - 1) : \A k \in 1..(capacity + 1) : b # 2 ^ k - 1

\* VecDeque::with_capacity(capacity).capacity()
with_capacity(capacity) == capacity

\* NonEmptyVecDeque::unfilled, for a deque created with the given capacity
unfilled(deque, capacity) == with_capacity(capacity) - Len(deque)

\* weeks_before collecting the weeks in iteration order (nearest week first)
weeks_before_nearest_first(week, qty) ==
    LET first == week_before(week)
    IN  IF first = None THEN None
        ELSE Some(<<first[1]>> \o iter_weeks_before(first[1], qty - 1))

\* WeekFactory::weeks_before
weeks_before(week, qty) ==
    LET first == week_before(week)
    IN  IF first = None THEN None
        ELSE Some(push_front_each(<<first[1]>>, iter_weeks_before(first[1], qty - 1)))

weeks_after(week, qty) ==
    LET first == week_after(week)
    IN  IF first = None THEN None
        ELSE Some(<<first[1]>> \o iter_weeks_after(first[1], qty - 1))

\* around_date taking the larger half of the weeks from before the date
around_date_before_heavy(date, week_qty) ==
    LET start_week == make_table[date]
        w0 == <<start_week>>
        w1 == push_front_each(w0, iter_weeks_before(start_week, week_qty \div 2))
        w2 == w1 \o iter_weeks_after(start_week, unfilled(w1, week_qty))
        un == unfilled(w2, week_qty)
    IN  IF un > 0 THEN push_front_each(w2, iter_weeks_before(Head(w2), un))
        ELSE w2

\* WeekFactory::around_date
around_date(date, week_qty) ==
    LET start_week == make_table[date]
        w0 == <<start_week>>
        w1 == push_front_each(w0, iter_weeks_before(start_week, (week_qty - 1) \div 2))
        w2 == w1 \o iter_weeks_after(start_week, unfilled(w1, week_qty))
        un == unfilled(w2, week_qty)
    IN  IF un > 0 THEN push_front_each(w2, iter_weeks_before(Head(w2), un))
        ELSE w2

\* ------------------------------------------------ reference notions of the claims
\* The day number of a week's Sunday, whether or not that day is representable.
SundayOf(week) ==
    LET j == CHOOSE j \in 1..DAYS_IN_WEEK : week[j] # None
    IN  week[j][1].date - (j - 1)

\* The week whose Sunday is the day s: a slot is empty when its day is outside the range.
WeekAt(s) ==
    [j \in 1..DAYS_IN_WEEK |->
        IF s + j - 1 \in Dates THEN Some(style_date(s + j - 1)) ELSE None]

FirstSunday == MinDate - index0(MinDate)

LastSunday == MaxDate - index0(MaxDate)

\* Number of weeks of the range after, and before, a week
WeeksAfter(week) == (LastSunday - SundayOf(week)) \div DAYS_IN_WEEK

WeeksBefore(week) == (SundayOf(week) - FirstSunday) \div DAYS_IN_WEEK

\* The n consecutive weeks that begin with the Sunday s
Run(s, n) == [i \in 1..n |-> WeekAt(s + DAYS_IN_WEEK * (i - 1))]

Min(a, b) == IF a < b THEN a ELSE b

Ascending(ws) ==
    \A i \in 1..(Len(ws) - 1) : SundayOf(ws[i + 1]) = SundayOf(ws[i]) + DAYS_IN_WEEK

\* ------------------------------------------------------ calendar dates
\* Day numbers name dates of the proleptic Gregorian calendar. The range
\* MinDate..MaxDate stands for a stretch of the calendar that begins on a
\* Monday; epoch says which: the days from 0000-01-01 to MinDate, counting
\* both. The application is modelled around the turn of the year 0000, where
\* MinDate is Monday 0000-12-18 and 0001-01-01, a Monday too, is day 15.
VARIABLE epoch

MinDateOrdinal == epoch

is_leap_year(year) == year % 4 = 0 /\ (year % 100 # 0 \/ year % 400 = 0)

days_in_month(year, month) ==
    IF month = 2 THEN (IF is_leap_year(year) THEN 29 ELSE 28)
    ELSE IF month \in {4, 6, 9, 11} THEN 30
    ELSE 31

RECURSIVE days_before_month(_, _)
days_before_month(year, month) ==
    IF month = 1 THEN 0
    ELSE days_before_month(year, month - 1) + days_in_month(year, month - 1)

\* Days from 0000-01-01 to the first day of a year
days_before_year(year) ==
    365 * year + (year + 3) \div 4 - (year + 99) \div 100 + (year + 399) \div 400

\* Days from 0000-01-01 to a calendar date, counting both
ordinal(year, month, day) ==
    days_before_year(year) + days_before_month(year, month) + day

TurnOfYearZero == ordinal(0, 12, 18)

\* The stretches of the calendar the range can stand for: the turn of the
\* year 0000 (Sunday 0000-12-31, Monday 0001-01-01); the turn of the year
\* 2022 (Saturday 2022-12-31, Sunday 2023-01-01); the turn of the year 2024
\* (Tuesday 2024-12-31); the first days that time::Date has, from Monday
\* -9999-01-01; and its last days, to Friday 9999-12-31
Epochs ==
    {TurnOfYearZero,
     ordinal(2022, 12, 19),
     ordinal(2024, 12, 16),
     ordinal(-9999, 1, 1),
     ordinal(9999, 12, 31) - (MaxDate - MinDate)}

\* time::Date::from_calendar_date: Some(day number), or None for the error
\* (a day the month does not have, or a date outside the representable range)
from_calendar_date(year, month, day) ==
    LET number == ordinal(year, month, day) - MinDateOrdinal + MinDate
    IN  IF /\ month \in 1..12
           /\ day \in 1..days_in_month(year, month)
           /\ number \in Dates
        THEN Some(number)
        ELSE None

\* -------------------------------------------------------------- JumpToState
ENTER_POS == 8

\* JumpToState::new(): no sign, no digit, cursor on the first year digit
JumpToStateNew ==
    [negative |-> FALSE,
     year     |-> <<None, None, None, None>>,
     month    |-> <<None, None>>,
     day      |-> <<None, None>>,
     pos      |-> 0]

\* SetSlot taking position 6 for a month digit
SetSlot_late_day(state, pos, value) ==
    IF pos < 4 THEN [state EXCEPT !.year[pos + 1] = value]
    ELSE IF pos < 7 THEN [state EXCEPT !.month[IF pos = 6 THEN 2 ELSE pos - 4 + 1] = value]
    ELSE [state EXCEPT !.day[pos - 6 + 1] = value]

\* The digit slot at a cursor position: set (or clear) it
SetSlot(state, pos, value) ==
    IF pos < 4 THEN [state EXCEPT !.year[pos + 1] = value]
    ELSE IF pos < 6 THEN [state EXCEPT !.month[pos - 4 + 1] = value]
    ELSE [state EXCEPT !.day[pos - 6 + 1] = value]

\* for d in digits { n = n * 10 + d }
RECURSIVE digits_value(_, _)
digits_value(digits, n) ==
    IF digits = <<>> THEN n
    ELSE digits_value(Tail(digits), n * 10 + Head(digits)[1])

\* The Enter arm of handle_input: the date the typed digits name, if any
entered_date(state) ==
    LET year0 == digits_value(state.year, 0)
        year  == IF state.negative THEN -year0 ELSE year0
        month == digits_value(state.month, 0)
        day   == digits_value(state.month, 0)
    IN  IF month \notin 1..12 THEN None
        ELSE from_calendar_date(year, month, day)

\* handle_input forgetting the typed digits when the date is rejected
handle_input_reset_on_invalid(state, input) ==
    IF input = <<"Negative">> /\ state.pos = 0
    THEN [state |-> [state EXCEPT !.negative = ~state.negative], output |-> <<"Ok">>]
    ELSE IF input = <<"Positive">> /\ state.pos = 0
    THEN [state |-> [state EXCEPT !.negative = FALSE], output |-> <<"Ok">>]
    ELSE IF input[1] = "Digit" /\ state.pos < ENTER_POS
    THEN [state  |-> [SetSlot(state, state.pos, Some(input[2]))
                        EXCEPT !.pos = state.pos + 1],
          output |-> <<"Ok">>]
    ELSE IF input = <<"Backspace">> /\ state.pos >= 1
    THEN [state  |-> [SetSlot(state, state.pos - 1, None) EXCEPT !.pos = state.pos - 1],
          output |-> <<"Ok">>]
    ELSE IF input = <<"Enter">> /\ state.pos = ENTER_POS
    THEN LET date == entered_date(state)
         IN  IF date = None THEN [state |-> JumpToStateNew, output |-> <<"Invalid">>]
             ELSE [state |-> state, output |-> <<"Jump", date[1]>>]
    ELSE [state |-> state, output |-> <<"Invalid">>]

\* JumpToState::handle_input: the state it leaves and the output it returns,
\* <<"Ok">>, <<"Invalid">> or <<"Jump", date>>
handle_input(state, input) ==
    IF input = <<"Negative">> /\ state.pos = 0
    THEN [state |-> [state EXCEPT !.negative = ~state.negative], output |-> <<"Ok">>]
    ELSE IF input = <<"Positive">> /\ state.pos = 0
    THEN [state |-> [state EXCEPT !.negative = FALSE], output |-> <<"Ok">>]
    ELSE IF input[1] = "Digit" /\ state.pos < ENTER_POS
    THEN [state  |-> [SetSlot(state, state.pos, Some(input[2]))
                        EXCEPT !.pos = state.pos + 1],
          output |-> <<"Ok">>]
    ELSE IF input = <<"Backspace">> /\ state.pos >= 1
    THEN [state  |-> [SetSlot(state, state.pos - 1, None) EXCEPT !.pos = state.pos - 1],
          output |-> <<"Ok">>]
    ELSE IF input = <<"Enter">> /\ state.pos = ENTER_POS
    THEN LET date == entered_date(state)
         IN  IF date = None THEN [state |-> state, output |-> <<"Invalid">>]
             ELSE [state |-> state, output |-> <<"Jump", date[1]>>]
    ELSE [state |-> state, output |-> <<"Invalid">>]

\* ----------------------------------------------------------------- AppState
\* InnerAppState
Calendar == <<"Calendar">>

Helping == <<"Helping">>

Jumping(state) == <<"Jumping", state>>

Quitting == <<"Quitting">>

\* Key codes: a one-character string is KeyCode::Char, a longer one the
\* KeyCode of that name.  The digit keys are held to 0..MaxDigit.
MaxDigit == 1

DigitKeys == {ToString(d) : d \in 0..MaxDigit}

KeyCodes ==
    {"j", "k", "z", "w", "g", "q", "?", "-", "+", "x",
     "Down", "Up", "PageDown", "PageUp", "Home", "Esc",
     "Backspace", "Delete", "Enter", "Tab"} \cup DigitKeys

\* The value of a digit key
DigitOf(key) == CHOOSE d \in 0..MaxDigit : ToString(d) = key

\* KeyModifiers are sets of modifier names
normal_modifiers == {"SHIFT"}

\* What read() can return: key presses, a key release and a resize
Events ==
    {<<"Press", code, {}>> : code \in KeyCodes}
        \cup {<<"Press", "Down", {"SHIFT"}>>,
              <<"Press", "j", {"CONTROL"}>>,
              <<"Press", "q", {"CONTROL", "SHIFT"}>>,
              <<"Release", "q", {}>>,
              <<"Resize">>}

\* The Calendar arm of handle_key with j and k exchanged
calendar_command_swapped(key) ==
    IF key \in {"k", "Down"} THEN "scroll_down"
    ELSE IF key \in {"j", "Up"} THEN "scroll_up"
    ELSE IF key \in {"z", "PageDown"} THEN "page_down"
    ELSE IF key \in {"w", "PageUp"} THEN "page_up"
    ELSE IF key \in {"0", "Home"} THEN "reset"
    ELSE IF key = "g" THEN "jump"
    ELSE IF key \in {"q", "Esc"} THEN "quit"
    ELSE IF key = "?" THEN "help"
    ELSE "invalid"

\* The Calendar arm of handle_key: what a key is bound to
calendar_command(key) ==
    IF key \in {"j", "Down"} THEN "scroll_down"
    ELSE IF key \in {"k", "Up"} THEN "scroll_up"
    ELSE IF key \in {"z", "PageDown"} THEN "page_down"
    ELSE IF key \in {"w", "PageUp"} THEN "page_up"
    ELSE IF key \in {"0", "Home"} THEN "reset"
    ELSE IF key = "g" THEN "jump"
    ELSE IF key \in {"q", "Esc"} THEN "quit"
    ELSE IF key = "?" THEN "help"
    ELSE "invalid"

\* The Jumping arm of handle_key: the JumpToInput a key stands for, if any
jump_to_input(key) ==
    IF key = "-" THEN Some(<<"Negative">>)
    ELSE IF key = "+" THEN Some(<<"Positive">>)
    ELSE IF key \in DigitKeys THEN Some(<<"Digit", DigitOf(key)>>)
    ELSE IF key \in {"Backspace", "Delete"} THEN Some(<<"Backspace">>)
    ELSE IF key = "Enter" THEN Some(<<"Enter">>)
    ELSE None

\* ------------------------------------------------------------------ widget
U16_MAX == 2 ^ 16 - 1

U16 == 0..U16_MAX

\* u16::saturating_sub, u16::saturating_add
saturating_sub(a, b) == IF a > b THEN a - b ELSE 0

saturating_add(a, b) == IF a + b > U16_MAX THEN U16_MAX ELSE a + b

MAIN_WIDTH == 46

LEFT_MARGIN == 6

LONGEST_MONTH_NAME_LEN == 9

MONTH_GUTTER == 2

RIGHT_MARGIN == LONGEST_MONTH_NAME_LEN + MONTH_GUTTER

TOTAL_WIDTH == LEFT_MARGIN + MAIN_WIDTH + RIGHT_MARGIN

HEADER_LINES == 2

WEEK_LINES == 2

VBAR_OFFSET == 5

DAY_WIDTH == 7

\* weeks_for_lines adding one line after halving
weeks_for_lines_round_late(lines) ==
    LET qty == saturating_add(saturating_sub(lines, HEADER_LINES) \div 2, 1)
    IN  IF qty = 0 THEN 1 ELSE qty

\* Calendar::weeks_for_lines
weeks_for_lines(lines) ==
    LET qty == saturating_add(saturating_sub(lines, HEADER_LINES), 1) \div 2
    IN  IF qty = 0 THEN 1 ELSE qty

\* ratatui Rect
Rect(x, y, width, height) == [x |-> x, y |-> y, width |-> width, height |-> height]

right(r) == saturating_add(r.x, r.width)

bottom(r) == saturating_add(r.y, r.height)

\* Rect::intersection
intersection(a, b) ==
    LET x1 == IF a.x > b.x THEN a.x ELSE b.x
        y1 == IF a.y > b.y THEN a.y ELSE b.y
        x2 == IF right(a) < right(b) THEN right(a) ELSE right(b)
        y2 == IF bottom(a) < bottom(b) THEN bottom(a) ELSE bottom(b)
    IN  Rect(x1, y1, saturating_sub(x2, x1), saturating_sub(y2, y1))

\* The years the stretches of Epochs touch
Years == {-9999, 0, 1, 2022, 2023, 2024, 2025, 9999}

\* The year, month and day of the date that lies a number of days from
\* 0000-01-01
civil_from_ordinal(number) ==
    LET year  == CHOOSE y \in Years :
                    number - days_before_year(y) \in 1..(IF is_leap_year(y) THEN 366 ELSE 365)
        month == CHOOSE m \in 1..12 :
                    number - days_before_year(year) - days_before_month(year, m)
                        \in 1..days_in_month(year, m)
    IN  <<year, month, number - days_before_year(year) - days_before_month(year, month)>>

\* The year, month and day of a representable date (Date::year, Date::month,
\* Date::day), tabulated
civil_table ==
    [e \in Epochs |-> [date \in Dates |-> civil_from_ordinal(e + date - MinDate)]]

date_year(date) == civil_table[epoch][date][1]

date_month(date) == civil_table[epoch][date][2]

date_day(date) == civil_table[epoch][date][3]

\* is_last_day_of_month that does not count the last date there is
is_last_day_of_month_but_max(date) ==
    IF next_day(date) = None THEN FALSE
    ELSE date_month(date) # date_month(next_day(date)[1])

\* StyledDate::is_last_day_of_month
is_last_day_of_month(date) ==
    IF next_day(date) = None THEN TRUE
    ELSE date_month(date) # date_month(next_day(date)[1])

\* The filled slots of a week, in weekday order (self.0.iter().flatten())
Flatten(week) ==
    LET filled == SelectSeq(week, LAMBDA slot : slot # None)
    IN  [n \in 1..Len(filled) |-> filled[n][1]]

has_month_start(week) == \E n \in 1..Len(Flatten(week)) : date_day(Flatten(week)[n].date) = 1

\* first_ym reading the last day of the week
first_ym_of_last_day(week) ==
    LET sd == Flatten(week)[Len(Flatten(week))]
    IN  <<date_year(sd.date), date_month(sd.date)>>

first_ym(week) ==
    LET sd == Flatten(week)[1]
    IN  <<date_year(sd.date), date_month(sd.date)>>

\* last_ym reading the first day of the week
last_ym_of_first_day(week) ==
    LET sd == Flatten(week)[1]
    IN  <<date_year(sd.date), date_month(sd.date)>>

last_ym(week) ==
    LET sd == Flatten(week)[Len(Flatten(week))]
    IN  <<date_year(sd.date), date_month(sd.date)>>

\* The length of year.to_string() and of month.to_string()
year_len(y) ==
    LET digits(n) == IF n < 10 THEN 1 ELSE IF n < 100 THEN 2 ELSE IF n < 1000 THEN 3 ELSE 4
    IN  IF y < 0 THEN 1 + digits(-y) ELSE digits(y)

month_len(m) == <<7, 8, 5, 5, 3, 4, 4, 6, 9, 7, 8, 8>>[m]

\* What BufferCanvas draws: the calls that reach the buffer, each with the
\* week row it was made for (-1 for the header), the line y and column x
\* inside the canvas, the length of its text and what the text is
Call(fn, row, y, x, len, kind, value) ==
    [fn |-> fn, row |-> row, y |-> y, x |-> x, len |-> len, kind |-> kind, value |-> value]

mvaddch(row, y, x, kind) == {Call("mvaddch", row, y, x, 1, kind, 0)}

mvprint(row, y, x, len, kind, value) == {Call("mvprint", row, y, x, len, kind, value)}

hline(row, y, x, kind, length) == mvprint(row, y, x, length, kind, 0)

draw_header ==
    mvprint(-1, 0, LEFT_MARGIN, MAIN_WIDTH, "HEADER", 0)
        \cup hline(-1, 1, LEFT_MARGIN, "ACS_HLINE", MAIN_WIDTH)

draw_year(week_no, y) ==
    mvprint(week_no, week_no * WEEK_LINES + HEADER_LINES, 0, year_len(y), "year", y)

draw_month(week_no, m) ==
    mvprint(week_no, week_no * WEEK_LINES + HEADER_LINES,
            LEFT_MARGIN + MAIN_WIDTH + MONTH_GUTTER, month_len(m), "month", m)

\* draw_day with date.show(is_today): four characters, bracketed for today
draw_day(week_no, wd, date, is_today) ==
    mvprint(week_no, week_no * WEEK_LINES + HEADER_LINES, LEFT_MARGIN + DAY_WIDTH * wd,
            4, IF is_today THEN "today" ELSE "day", date_day(date))

draw_month_border(week_no, wd) ==
    LET y       == week_no * WEEK_LINES + HEADER_LINES
        offset  == DAY_WIDTH * wd
        bar_col == LEFT_MARGIN + offset + VBAR_OFFSET
    IN  (IF wd # Saturday
         THEN mvaddch(week_no, y, bar_col, "ACS_VLINE")
                \cup mvaddch(week_no, y - 1, bar_col,
                             IF week_no = 0 THEN "ACS_TTEE" ELSE "ACS_ULCORNER")
                \cup (IF week_no > 0 /\ MAIN_WIDTH >= offset + VBAR_OFFSET + 1
                      THEN hline(week_no, y - 1, bar_col + 1, "ACS_HLINE",
                                 MAIN_WIDTH - (offset + VBAR_OFFSET + 1))
                      ELSE {})
                \cup mvaddch(week_no, y + 1, bar_col, "ACS_LRCORNER")
         ELSE {})
        \cup hline(week_no, y + 1, LEFT_MARGIN, "ACS_HLINE", offset + VBAR_OFFSET)

\* Weekday::previous
previous(wd) == (wd + DAYS_IN_WEEK - 1) % DAYS_IN_WEEK

\* The body of the loop over the weeks in Calendar::render, for week i
render_week(ws, i, today_date) ==
    LET week == ws[i + 1]
        labels ==
            IF has_month_start(week)
            THEN draw_month(i, last_ym(week)[2])
                   \cup (IF last_ym(week)[2] = 1
                         THEN IF first_ym(week)[2] = 1
                              THEN draw_year(i, first_ym(week)[1])
                              ELSE IF i + 1 < Len(ws)
                              THEN draw_year(i + 1, last_ym(week)[1])
                              ELSE {}
                         ELSE {})
            ELSE {}
        days(wd) ==
            IF WeekGet(week, wd) = None THEN {}
            ELSE LET date == WeekGet(week, wd)[1].date
                 IN  draw_day(i, wd, date, date = today_date)
                       \cup (IF is_last_day_of_month(date)
                             THEN draw_month_border(i, wd)
                             ELSE IF date = MinDate
                             THEN IF previous(wd) # Saturday
                                  THEN draw_month_border(i, previous(wd))
                                  ELSE IF i > 0
                                  THEN draw_month_border(i - 1, previous(wd))
                                  ELSE {}
                             ELSE {})
    IN  labels \cup UNION {days(wd) : wd \in Sunday..Saturday}

\* Calendar::render after ensure_weeks: every call made on the canvas
render(ws, today_date) ==
    draw_header
        \cup draw_year(0, first_ym(ws[1])[1])
        \cup draw_month(0, last_ym(ws[1])[2])
        \cup UNION {render_week(ws, i, today_date) : i \in 0..(Len(ws) - 1)}

\* The areas Layout::horizontal can give the calendar inside an area: left
\* columns of margin, then TOTAL_WIDTH columns or as many as the area has;
\* when the two do not fit the solver shortens one of them or both
Chunks(area) ==
    LET left  == (IF saturating_sub(area.width, MAIN_WIDTH) \div 2 > LEFT_MARGIN
                  THEN saturating_sub(area.width, MAIN_WIDTH) \div 2
                  ELSE LEFT_MARGIN) - LEFT_MARGIN
        width == IF TOTAL_WIDTH < area.width THEN TOTAL_WIDTH ELSE area.width
    IN  IF left + width <= area.width
        THEN {Rect(area.x + left, area.y, width, area.height)}
        ELSE {Rect(area.x + l, area.y, area.width - l, area.height) : l \in 0..left}

\* -------------------------------------------------------------- WeekWindow
VARIABLES
    today,       \* WeekWindow.today
    start_date,  \* WeekWindow.start_date
    weeks,       \* WeekWindow.weeks : Option<VecDeque<Week>>
    op,          \* name of the operation that ran last ("new" after construction)
    arg,         \* its argument (week quantity or date), 0 when it has none
    result,      \* its outcome: "Ok" or "Err" (OutOfTimeError)
    target,      \* week_qty of the most recent ensure_weeks call, 0 before the first
    avail,       \* history: the number of weeks that existed beyond the edge a scroll
                 \* or page operation moved towards, before it ran (-1: not applicable)
    inner,       \* AppState.inner : InnerAppState
    event,       \* history: the event the last handle_input read (None: none yet)
    bell,        \* whether the last step rang the terminal bell
    pc,          \* App::run: "draw", "input", or "done" after the loop
    frame        \* history: the last Calendar::render (None: none yet): the area
                 \* it was given and the area of its BufferCanvas

wvars == <<today, start_date, weeks, op, arg, result, target, avail, epoch>>

avars == <<inner, event, bell, pc, frame>>

vars == <<today, start_date, weeks, op, arg, result, target, avail,
          inner, event, bell, pc, frame, epoch>>

Materialized == weeks # None

Back(deque) == deque[Len(deque)]

Front(deque) == Head(deque)

\* truncate keeping one element too few
truncate_short(deque, len) == SubSeq(deque, 1, len - 1)

\* VecDeque::truncate(len): keep the first len elements
truncate(deque, len) == IF len >= Len(deque) THEN deque ELSE SubSeq(deque, 1, len)

\* drain(0..n) removing one element too few
drain_front_short(deque, n) == SubSeq(deque, n, Len(deque))

\* VecDeque::drain(0..n): remove the first n elements
drain_front(deque, n) == SubSeq(deque, n + 1, Len(deque))

\* ensure_weeks, Ordering::Less arm: the buffer ws is shorter than week_qty
ensure_less(ws, week_qty) ==
    LET missing   == week_qty - Len(ws)
        ext       == weeks_after(Back(ws), missing)
        extension == IF ext = None THEN <<>> ELSE ext[1]
        appended  == ws \o extension
        missing2  == week_qty - Len(appended)
        prext     == weeks_before(Front(appended), missing2)
    IN  IF missing2 > 0 /\ prext # None
        THEN push_front_each(appended, prext[1])
        ELSE appended

\* ensure_weeks materializing around today whatever the start date
ensure_weeks_around_today(wopt, sdate, week_qty) ==
    IF wopt # None
    THEN LET ws == wopt[1]
         IN  IF Len(ws) < week_qty THEN ensure_less(ws, week_qty)
             ELSE IF Len(ws) > week_qty THEN truncate(ws, week_qty)
             ELSE ws
    ELSE around_date(today, week_qty)

\* WeekWindow::ensure_weeks: the buffer it leaves (and returns)
ensure_weeks(wopt, sdate, week_qty) ==
    IF wopt # None
    THEN LET ws == wopt[1]
         IN  IF Len(ws) < week_qty THEN ensure_less(ws, week_qty)
             ELSE IF Len(ws) > week_qty THEN truncate(ws, week_qty)
             ELSE ws
    ELSE around_date(sdate, week_qty)

\* jump_to building a one-week buffer when there is none
jump_to_materializes(wopt, date) ==
    IF wopt # None THEN Some(around_date(date, Len(wopt[1])))
    ELSE Some(around_date(date, 1))

\* WeekWindow::jump_to_today, and jump_to_date with the date given
jump_to(wopt, date) ==
    IF wopt # None THEN Some(around_date(date, Len(wopt[1]))) ELSE wopt

\* one_week_forwards popping the front week before it knows that a week follows
one_week_forwards_pop_first(wopt) ==
    IF wopt = None THEN [weeks |-> wopt, result |-> "Ok"]
    ELSE LET ws == wopt[1]
             w  == week_after(Back(ws))
         IN  IF w # None
             THEN [weeks |-> Some(Tail(Append(ws, w[1]))), result |-> "Ok"]
             ELSE [weeks |-> Some(Tail(ws)), result |-> "Err"]

\* The scroll and page operations yield [weeks |-> ..., result |-> ...]
one_week_forwards(wopt) ==
    IF wopt = None THEN [weeks |-> wopt, result |-> "Ok"]
    ELSE LET ws == wopt[1]
             w  == week_after(Back(ws))
         IN  IF w # None
             THEN [weeks |-> Some(Tail(Append(ws, w[1]))), result |-> "Ok"]
             ELSE [weeks |-> wopt, result |-> "Err"]

\* one_week_backwards dropping the week it has just pushed (pop_front for pop_back)
one_week_backwards_pop_front(wopt) ==
    IF wopt = None THEN [weeks |-> wopt, result |-> "Ok"]
    ELSE LET ws == wopt[1]
             w  == week_before(Front(ws))
         IN  IF w # None
             THEN [weeks |-> Some(Tail(<<w[1]>> \o ws)), result |-> "Ok"]
             ELSE [weeks |-> wopt, result |-> "Err"]

one_week_backwards(wopt) ==
    IF wopt = None THEN [weeks |-> wopt, result |-> "Ok"]
    ELSE LET ws == wopt[1]
             w  == week_before(Front(ws))
         IN  IF w # None
             THEN [weeks |-> Some(SubSeq(<<w[1]>> \o ws, 1, Len(ws))), result |-> "Ok"]
             ELSE [weeks |-> wopt, result |-> "Err"]

\* one_page_forwards treating a short page as the end of time
one_page_forwards_short_is_error(wopt) ==
    IF wopt = None THEN [weeks |-> wopt, result |-> "Ok"]
    ELSE LET ws   == wopt[1]
             page == weeks_after(Back(ws), Len(ws))
         IN  IF page # None /\ Len(page[1]) = Len(ws)
             THEN [weeks |-> Some(page[1]), result |-> "Ok"]
             ELSE [weeks |-> wopt, result |-> "Err"]

one_page_forwards(wopt) ==
    IF wopt = None THEN [weeks |-> wopt, result |-> "Ok"]
    ELSE LET ws   == wopt[1]
             page == weeks_after(Back(ws), Len(ws))
         IN  IF page # None
             THEN [weeks |-> IF Len(page[1]) = Len(ws) THEN Some(page[1])
                             ELSE Some(drain_front(ws, Len(page[1])) \o page[1]),
                   result |-> "Ok"]
             ELSE [weeks |-> wopt, result |-> "Err"]

\* one_page_backwards padding a short page with the old trailing weeks
one_page_backwards_keep_tail(wopt) ==
    IF wopt = None THEN [weeks |-> wopt, result |-> "Ok"]
    ELSE LET ws   == wopt[1]
             page == weeks_before(Front(ws), Len(ws))
         IN  IF page # None
             THEN [weeks |-> IF Len(page[1]) < Len(ws)
                             THEN Some(page[1] \o drain_front(ws, Len(page[1])))
                             ELSE Some(page[1]),
                   result |-> "Ok"]
             ELSE [weeks |-> wopt, result |-> "Err"]

one_page_backwards(wopt) ==
    IF wopt = None THEN [weeks |-> wopt, result |-> "Ok"]
    ELSE LET ws   == wopt[1]
             page == weeks_before(Front(ws), Len(ws))
         IN  IF page # None
             THEN [weeks |-> IF Len(page[1]) < Len(ws)
                             THEN Some(page[1] \o truncate(ws, Len(ws) - Len(page[1])))
                             ELSE Some(page[1]),
                   result |-> "Ok"]
             ELSE [weeks |-> wopt, result |-> "Err"]

\* WeekWindow::new(today, styler), optionally followed by start_date(date).
\* The start date is today (no date on the command line) or one of the two
\* ends of the range; jump_to_date covers every other date.
New ==
    /\ today \in Dates
    /\ start_date \in {today, MinDate, MaxDate}
    /\ weeks = None
    /\ op = "new"
    /\ arg = 0
    /\ result = "Ok"
    /\ target = 0
    /\ avail = -1
    /\ inner = Calendar
    /\ event = None
    /\ bell = FALSE
    /\ pc = "draw"
    /\ frame = None

Init ==
    /\ New
    /\ epoch = TurnOfYearZero

\* The operations of the window as steps; the application state is left to
\* the caller
EnsureWeeksTo(week_qty) ==
    /\ weeks' = Some(ensure_weeks(weeks, start_date, week_qty))
    /\ op' = "ensure_weeks"
    /\ arg' = week_qty
    /\ result' = "Ok"
    /\ target' = week_qty
    /\ avail' = -1
    /\ UNCHANGED <<today, start_date, epoch>>

Jump(name, date, shown) ==
    /\ weeks' = jump_to(weeks, date)
    /\ op' = name
    /\ arg' = shown
    /\ result' = "Ok"
    /\ avail' = -1
    /\ UNCHANGED <<today, start_date, target, epoch>>

EnsureWeeks ==
    /\ \E week_qty \in 1..MaxQty : EnsureWeeksTo(week_qty)
    /\ UNCHANGED avars

JumpToToday ==
    /\ Jump("jump_to_today", today, 0)
    /\ UNCHANGED avars

JumpToDate ==
    /\ \E date \in Dates : Jump("jump_to_date", date, date)
    /\ UNCHANGED avars

AvailAfter == IF Materialized THEN WeeksAfter(Back(weeks[1])) ELSE -1

AvailBefore == IF Materialized THEN WeeksBefore(Front(weeks[1])) ELSE -1

Scroll(name, r, k) ==
    /\ weeks' = r.weeks
    /\ op' = name
    /\ arg' = 0
    /\ result' = r.result
    /\ avail' = k
    /\ UNCHANGED <<today, start_date, target, epoch>>

OneWeekForwards ==
    /\ Scroll("one_week_forwards", one_week_forwards(weeks), AvailAfter)
    /\ UNCHANGED avars

OneWeekBackwards ==
    /\ Scroll("one_week_backwards", one_week_backwards(weeks), AvailBefore)
    /\ UNCHANGED avars

OnePageForwards ==
    /\ Scroll("one_page_forwards", one_page_forwards(weeks), AvailAfter)
    /\ UNCHANGED avars

OnePageBackwards ==
    /\ Scroll("one_page_backwards", one_page_backwards(weeks), AvailBefore)
    /\ UNCHANGED avars

Next ==
    \/ EnsureWeeks
    \/ JumpToToday
    \/ JumpToDate
    \/ OneWeekForwards
    \/ OneWeekBackwards
    \/ OnePageForwards
    \/ OnePageBackwards

Spec == Init /\ [][Next]_vars

TypeOK ==
    /\ today \in Dates
    /\ start_date \in Dates
    /\ Len(weeks) \in {0, 1}
    /\ result \in {"Ok", "Err"}
    /\ avail \in -1..NumWeeks

\* ---------------------------------------------------------------------- App
\* Terminal heights a draw can meet: no room for a week, two weeks, three weeks
Lines == {0, 5, 7}

\* The application starts on the day 0001-01-01, without a start date on
\* the command line
AppToday == {MinDate + 14}

AppInit ==
    /\ Init
    /\ today \in AppToday
    /\ start_date = today

\* The terminal width of the application
Columns == 80

\* The additions of mvaddch and mvprint that leave u16 for a call: the
\* column and the line themselves, and for mvprint their sums with the
\* origin of the canvas (mvaddch adds only inside the canvas)
Overflows(call, canvas) ==
    \/ call.x \notin U16
    \/ call.y \notin U16
    \/ /\ call.fn = "mvprint"
       /\ \/ call.x + canvas.x \notin U16
          \/ call.y + canvas.y \notin U16

\* The buffer cells <<column, line>> a call writes. An addition that leaves
\* u16 panics in a build with overflow checks, and the call and those after
\* it write nothing; in a build without them it wraps, as here.
Cells(call, canvas) ==
    IF call.fn = "mvaddch"
    THEN IF call.y < canvas.height /\ call.x < canvas.width
         THEN {<<call.x + canvas.x, call.y + canvas.y>>}
         ELSE {}
    ELSE LET line == intersection(Rect((call.x + canvas.x) % (U16_MAX + 1),
                                       (call.y + canvas.y) % (U16_MAX + 1),
                                       canvas.width, 1), canvas)
             shown == IF call.len < line.width THEN call.len ELSE line.width
         IN  IF line.height = 0 THEN {}
             ELSE {<<column, line.y>> : column \in line.x..(line.x + shown - 1)}

\* Calendar::render into an area: the layout gives the canvas, the window
\* is asked for the weeks that fit its height, and the calls of
\* render(weeks', today') are made on the canvas
RenderInto(area) ==
    \E canvas \in Chunks(area) :
        /\ EnsureWeeksTo(weeks_for_lines(canvas.height))
        /\ frame' = Some([area |-> area, canvas |-> canvas])

\* App::draw: the calendar widget is rendered into the whole terminal. In the
\* Helping mode the help overlay is rendered over it into the same area; what
\* Help::render computes from that area is given by help_height, help_width
\* and HelpUnderflows.
Draw ==
    /\ pc = "draw"
    /\ inner # Quitting
    /\ \E lines \in Lines : RenderInto(Rect(0, 0, Columns, lines))
    /\ pc' = "input"
    /\ event' = None
    /\ bell' = FALSE
    /\ UNCHANGED inner

\* AppState::handle_key, InnerAppState::Calendar arm
CalendarKey(key) ==
    LET command == calendar_command(key)
    IN  \/ /\ command = "scroll_down"
           /\ Scroll("one_week_forwards", one_week_forwards(weeks), AvailAfter)
           /\ bell' = (result' # "Ok")
           /\ UNCHANGED inner
        \/ /\ command = "scroll_up"
           /\ Scroll("one_week_backwards", one_week_backwards(weeks), AvailBefore)
           /\ bell' = (result' # "Ok")
           /\ UNCHANGED inner
        \/ /\ command = "page_down"
           /\ Scroll("one_page_forwards", one_page_forwards(weeks), AvailAfter)
           /\ bell' = (result' # "Ok")
           /\ UNCHANGED inner
        \/ /\ command = "page_up"
           /\ Scroll("one_page_backwards", one_page_backwards(weeks), AvailBefore)
           /\ bell' = (result' # "Ok")
           /\ UNCHANGED inner
        \/ /\ command = "reset"
           /\ Jump("jump_to_today", today, 0)
           /\ bell' = FALSE
           /\ UNCHANGED inner
        \/ /\ command = "jump"
           /\ inner' = Jumping(JumpToStateNew)
           /\ bell' = FALSE
           /\ UNCHANGED wvars
        \/ /\ command = "quit"
           /\ inner' = Quitting
           /\ bell' = FALSE
           /\ UNCHANGED wvars
        \/ /\ command = "help"
           /\ inner' = Helping
           /\ bell' = FALSE
           /\ UNCHANGED wvars
        \/ /\ command = "invalid"
           /\ bell' = TRUE
           /\ UNCHANGED <<wvars, inner>>

\* The Jumping arm with q and Esc quitting as they do in calendar mode
JumpingKey_q_quits(key, state) ==
    IF key \in {"q", "Esc"}
    THEN /\ inner' = Quitting
         /\ bell' = FALSE
         /\ UNCHANGED wvars
    ELSE IF key = "g"
    THEN /\ inner' = Calendar
         /\ bell' = FALSE
         /\ UNCHANGED wvars
    ELSE LET input == jump_to_input(key)
             r     == IF input = None THEN [state |-> state, output |-> <<"Invalid">>]
                      ELSE handle_input(state, input[1])
         IN  \/ /\ r.output = <<"Ok">>
                /\ inner' = Jumping(r.state)
                /\ bell' = FALSE
                /\ UNCHANGED wvars
             \/ /\ r.output = <<"Invalid">>
                /\ inner' = Jumping(r.state)
                /\ bell' = TRUE
                /\ UNCHANGED wvars
             \/ /\ r.output[1] = "Jump"
                /\ inner' = Calendar
                /\ Jump("jump_to_date", r.output[2], r.output[2])
                /\ bell' = FALSE

\* AppState::handle_key, InnerAppState::Jumping arm
JumpingKey(key, state) ==
    IF key \in {"q", "g", "Esc"}
    THEN /\ inner' = Calendar
         /\ bell' = FALSE
         /\ UNCHANGED wvars
    ELSE LET input == jump_to_input(key)
             r     == IF input = None THEN [state |-> state, output |-> <<"Invalid">>]
                      ELSE handle_input(state, input[1])
         IN  \/ /\ r.output = <<"Ok">>
                /\ inner' = Jumping(r.state)
                /\ bell' = FALSE
                /\ UNCHANGED wvars
             \/ /\ r.output = <<"Invalid">>
                /\ inner' = Jumping(r.state)
                /\ bell' = TRUE
                /\ UNCHANGED wvars
             \/ /\ r.output[1] = "Jump"
                /\ inner' = Calendar
                /\ Jump("jump_to_date", r.output[2], r.output[2])
                /\ bell' = FALSE

\* the Quitting arm going back to the calendar
QuittingKey_resumes(key) ==
    /\ inner' = Calendar
    /\ bell' = FALSE
    /\ UNCHANGED wvars

\* AppState::handle_key, InnerAppState::Quitting arm: every key is rejected
QuittingKey(key) ==
    /\ bell' = TRUE
    /\ UNCHANGED <<wvars, inner>>

\* AppState::handle_key; the bell rings when it returns false
HandleKey(key) ==
    \/ /\ inner = Calendar
       /\ CalendarKey(key)
    \/ /\ inner = Helping
       /\ inner' = Calendar
       /\ bell' = FALSE
       /\ UNCHANGED wvars
    \/ /\ inner[1] = "Jumping"
       /\ JumpingKey(key, inner[2])
    \/ /\ inner = Quitting
       /\ QuittingKey(key)

\* handle_input ringing the bell for an event that is not a key press
HandleInput_beeps_at_other_events ==
    /\ pc = "input"
    /\ \E ev \in Events :
        /\ event' = Some(ev)
        /\ IF ev[1] = "Press"
           THEN IF ev[3] \subseteq normal_modifiers
                THEN HandleKey(ev[2])
                ELSE /\ bell' = TRUE
                     /\ UNCHANGED <<wvars, inner>>
           ELSE /\ bell' = TRUE
                /\ UNCHANGED <<wvars, inner>>
    /\ pc' = "draw"
    /\ UNCHANGED frame

\* App::handle_input: read one event; only a key press is handled
HandleInput ==
    /\ pc = "input"
    /\ \E ev \in Events :
        /\ event' = Some(ev)
        /\ IF ev[1] = "Press"
           THEN IF ev[3] \subseteq normal_modifiers
                THEN HandleKey(ev[2])
                ELSE /\ bell' = TRUE
                     /\ UNCHANGED <<wvars, inner>>
           ELSE /\ bell' = FALSE
                /\ UNCHANGED <<wvars, inner>>
    /\ pc' = "draw"
    /\ UNCHANGED frame

\* App::run leaves its loop once the state is Quitting
Exit ==
    /\ pc = "draw"
    /\ inner = Quitting
    /\ pc' = "done"
    /\ bell' = FALSE
    /\ UNCHANGED <<wvars, inner, event, frame>>

AppNext ==
    \/ Draw
    \/ HandleInput
    \/ Exit

AppSpec == AppInit /\ [][AppNext]_vars

\* The loop of App::run is one thread that blocks only in read(): a draw that
\* can happen does happen, an input event may never come
AppLive == AppSpec /\ WF_vars(Draw)

\* AppState::handle_key applied to the state that the loop has left behind:
\* nothing in the program makes this call, it shows what the Quitting arm
\* answers. The bell stands for the answer false.
KeyAfterExit ==
    /\ pc = "done"
    /\ inner = Quitting
    /\ \E key \in KeyCodes : QuittingKey(key)
    /\ UNCHANGED <<event, pc, frame>>

QuitNext ==
    \/ AppNext
    \/ KeyAfterExit

QuitSpec == AppInit /\ [][QuitNext]_vars

\* --------------------------------------------------------------------- Help
\* help.rs TEXT, line by line: the keys a line names, the action it names
\* and the number of columns the line takes
TEXT ==
    << [keys |-> <<"j", "UP">>,        action |-> "Scroll up one week",   width |-> 34],
       [keys |-> <<"k", "DOWN">>,      action |-> "Scroll down one week", width |-> 36],
       [keys |-> <<"w", "PAGE UP">>,   action |-> "Scroll up one page",   width |-> 34],
       [keys |-> <<"z", "PAGE DOWN">>, action |-> "Scroll down one page", width |-> 36],
       [keys |-> <<"0", "HOME">>,      action |-> "Jump to today",        width |-> 29],
       [keys |-> <<"?">>,              action |-> "Show this help",       width |-> 30],
       [keys |-> <<"q", "ESC">>,       action |-> "Quit",                 width |-> 20],
       [keys |-> <<>>,                 action |-> "",                     width |-> 0],
       [keys |-> <<>>, action |-> "Press the Any Key to dismiss.",        width |-> 29] >>

\* Text::height and Text::width of the help text
text_height == Len(TEXT)

text_width == CHOOSE w \in 0..U16_MAX :
    /\ \E i \in 1..Len(TEXT) : TEXT[i].width = w
    /\ \A i \in 1..Len(TEXT) : TEXT[i].width <= w

\* Help::render: the height and the width of the overlay with its border
help_height(area) ==
    saturating_add(IF text_height < area.height THEN text_height ELSE area.height, 2)

help_width(area) ==
    saturating_add(IF text_width < area.width THEN text_width ELSE area.width, 2)

\* Help::render: one of the subtractions area.width - width and
\* area.height - height leaves u16; a build with overflow checks panics
\* there, a build without them goes on with the wrapped difference
HelpUnderflows(area) ==
    \/ area.width - help_width(area) < 0
    \/ area.height - help_height(area) < 0

\* Help::render: the offsets of the overlay, wrapped as the build without
\* overflow checks computes them
help_left(area) == ((area.width - help_width(area)) % (U16_MAX + 1)) \div 2

help_top(area) == ((area.height - help_height(area)) % (U16_MAX + 1)) \div 2

\* ------------------------------------------------------------------- Render
\* The widget on its own: rendered into any area of a buffer, between
\* scrolls of the window, anywhere in the calendar. Areas lie inside u16 on
\* both axes. At the origin they are as wide as a terminal and as high as
\* no week, one line, two weeks, three weeks, a terminal of 24 lines or all
\* of u16, or two weeks high and empty, narrower than the calendar or too
\* narrow for its margin; three more lie against the far edges.
RectWidth == {0, 35, 61}

RectHeight == {0, 1, 5, 7, 24, U16_MAX}

Rects ==
    {Rect(0, 0, Columns, height) : height \in RectHeight}
        \cup {Rect(0, 0, width, 5) : width \in RectWidth}
        \cup {Rect(65500, 0, 35, 5), Rect(0, 65534, 80, 1), Rect(65500, 65535, 35, 0)}

RenderInit ==
    /\ New
    /\ today \in {MaxDate} \cup AppToday
    /\ start_date = today
    /\ epoch \in Epochs

Render ==
    /\ \E area \in Rects : RenderInto(area)
    /\ UNCHANGED <<inner, event, bell, pc>>

RenderNext ==
    \/ Render
    \/ OneWeekForwards
    \/ OneWeekBackwards

RenderSpec == RenderInit /\ [][RenderNext]_vars

\* ------------------------------------------------------------------ claims
\* C1: after any sequence of ensure_weeks, scroll, page and jump operations
\* the materialized buffer is in ascending contiguous order: each entry's
\* Sunday is exactly 7 days after the previous entry's Sunday.
C1_Contiguous == Materialized => Ascending(weeks[1])

\* C2: the buffer length equals the week_qty of the most recent ensure_weeks
\* call, unless the whole representable range holds fewer weeks than that.
C2_Length == Materialized /\ target <= NumWeeks => Len(weeks[1]) = target

\* C3: once materialized, the buffer is never empty and never becomes
\* unmaterialized again.
C3_NonEmpty ==
    [][/\ weeks' # None => Len(weeks'[1]) >= 1
       /\ Materialized => weeks' # None]_vars

C3_Witness ==
    /\ Materialized
    /\ op = "ensure_weeks"
    /\ arg = 1
    /\ Len(weeks[1]) = 1

\* C4: when no week exists after the last week, one_week_forwards returns
\* the error and leaves the buffer as it was; symmetrically one_week_backwards
\* when no week exists before the first week.
C4_WeekScrollFails ==
    [][/\ op' = "one_week_forwards" /\ Materialized /\ WeeksAfter(Back(weeks[1])) = 0
            => result' = "Err" /\ weeks' = weeks
       /\ op' = "one_week_backwards" /\ Materialized /\ WeeksBefore(Front(weeks[1])) = 0
            => result' = "Err" /\ weeks' = weeks]_vars

C4_Witness ==
    /\ Materialized
    /\ op = "one_week_backwards"
    /\ result = "Err"
    /\ avail = 0
    /\ Len(weeks[1]) >= 2

\* C5: one_page_forwards returns the error if and only if no week exists
\* after the last week, and then the buffer is unchanged; one_page_backwards
\* likewise with the weeks before the first week.
C5_PageFailsOnlyAtBoundary ==
    [][/\ op' = "one_page_forwards" /\ Materialized
            => /\ result' = "Err" <=> WeeksAfter(Back(weeks[1])) = 0
               /\ result' = "Err" => weeks' = weeks
       /\ op' = "one_page_backwards" /\ Materialized
            => /\ result' = "Err" <=> WeeksBefore(Front(weeks[1])) = 0
               /\ result' = "Err" => weeks' = weeks]_vars

C5_Witness ==
    /\ Materialized
    /\ op = "one_page_forwards"
    /\ result = "Err"
    /\ avail = 0
    /\ Len(weeks[1]) >= 2

\* C6: with n weeks in the buffer and k weeks after its last week, 1 <= k < n,
\* one_page_forwards succeeds and leaves the old buffer's last n-k weeks
\* followed by the k new weeks: n weeks, the last one the last week of the range.
C6_ShortPageForwards ==
    [][op' = "one_page_forwards" /\ Materialized
        => LET ws == weeks[1]
               n  == Len(ws)
               k  == WeeksAfter(Back(ws))
           IN  1 <= k /\ k < n
               => /\ result' = "Ok"
                  /\ weeks'[1] = SubSeq(ws, k + 1, n)
                                   \o Run(SundayOf(Back(ws)) + DAYS_IN_WEEK, k)
                  /\ Len(weeks'[1]) = n
                  /\ SundayOf(Back(weeks'[1])) = LastSunday]_vars

C6_Witness ==
    /\ Materialized
    /\ op = "one_page_forwards"
    /\ result = "Ok"
    /\ Len(weeks[1]) >= 3
    /\ 1 <= avail /\ avail < Len(weeks[1]) - 1
    /\ SundayOf(Back(weeks[1])) = LastSunday

\* C7: with n weeks in the buffer and at least n weeks after its last week,
\* one_page_forwards replaces the buffer with the n weeks that follow the old
\* last week: no week of the old buffer remains.
C7_FullPageForwards ==
    [][op' = "one_page_forwards" /\ Materialized
        => LET ws == weeks[1]
               n  == Len(ws)
           IN  WeeksAfter(Back(ws)) >= n
               => /\ result' = "Ok"
                  /\ weeks'[1] = Run(SundayOf(Back(ws)) + DAYS_IN_WEEK, n)
                  /\ SundayOf(Front(weeks'[1])) = SundayOf(Back(ws)) + DAYS_IN_WEEK
                  /\ \A i, j \in 1..n : weeks'[1][i] # ws[j]]_vars

\* C8: with n weeks in the buffer and k >= 1 weeks before its first week,
\* one_page_backwards leaves the n preceding weeks (k >= n) or the k earlier
\* weeks followed by the old first n-k weeks (k < n): n weeks in ascending order.
C8_PageBackwards ==
    [][op' = "one_page_backwards" /\ Materialized
        => LET ws == weeks[1]
               n  == Len(ws)
               k  == WeeksBefore(Front(ws))
               s  == SundayOf(Front(ws))
           IN  k >= 1
               => /\ result' = "Ok"
                  /\ k >= n => weeks'[1] = Run(s - DAYS_IN_WEEK * n, n)
                  /\ k < n  => weeks'[1] = Run(s - DAYS_IN_WEEK * k, k) \o SubSeq(ws, 1, n - k)
                  /\ Len(weeks'[1]) = n
                  /\ Ascending(weeks'[1])]_vars

\* n successive calls of one_week_forwards / one_week_backwards
RECURSIVE WeekStepsForwards(_, _)
WeekStepsForwards(wopt, n) ==
    IF n = 0 THEN wopt ELSE WeekStepsForwards(one_week_forwards(wopt).weeks, n - 1)

RECURSIVE WeekStepsBackwards(_, _)
WeekStepsBackwards(wopt, n) ==
    IF n = 0 THEN wopt ELSE WeekStepsBackwards(one_week_backwards(wopt).weeks, n - 1)

\* C9: a successful one_page_forwards on n weeks, k of which exist after the
\* last week, yields the buffer of min(n, k) successive one_week_forwards
\* calls (same length, no week skipped or repeated); one_page_backwards
\* likewise equals min(n, k) one_week_backwards calls.
C9_PageIsWeekSteps ==
    [][/\ op' = "one_page_forwards" /\ Materialized /\ result' = "Ok"
            => LET n == Len(weeks[1])
                   k == WeeksAfter(Back(weeks[1]))
               IN  /\ weeks' = WeekStepsForwards(weeks, Min(n, k))
                   /\ Len(weeks'[1]) = n
       /\ op' = "one_page_backwards" /\ Materialized /\ result' = "Ok"
            => LET n == Len(weeks[1])
                   k == WeeksBefore(Front(weeks[1]))
               IN  /\ weeks' = WeekStepsBackwards(weeks, Min(n, k))
                   /\ Len(weeks'[1]) = n]_vars

C9_Witness ==
    /\ Materialized
    /\ op = "one_page_backwards"
    /\ result = "Ok"
    /\ Len(weeks[1]) >= 3
    /\ 1 <= avail /\ avail < Len(weeks[1])
    /\ SundayOf(Front(weeks[1])) = FirstSunday

\* C10: when a week exists after the last week, one_week_forwards succeeds
\* and leaves the old buffer without its first week, followed by the week
\* after the old last week; one_week_backwards symmetrically.
C10_WeekScroll ==
    [][/\ op' = "one_week_forwards" /\ Materialized /\ WeeksAfter(Back(weeks[1])) >= 1
            => /\ result' = "Ok"
               /\ weeks'[1] = Tail(weeks[1])
                                \o <<WeekAt(SundayOf(Back(weeks[1])) + DAYS_IN_WEEK)>>
       /\ op' = "one_week_backwards" /\ Materialized /\ WeeksBefore(Front(weeks[1])) >= 1
            => /\ result' = "Ok"
               /\ weeks'[1] = <<WeekAt(SundayOf(Front(weeks[1])) - DAYS_IN_WEEK)>>
                                \o SubSeq(weeks[1], 1, Len(weeks[1]) - 1)]_vars

C10_Witness ==
    /\ Materialized
    /\ op = "one_week_forwards"
    /\ result = "Ok"
    /\ avail >= 1
    /\ Len(weeks[1]) >= 2

\* C11: if one_week_forwards succeeds on a buffer, one_week_backwards applied
\* right after it also succeeds and gives back the buffer as it was before
\* the pair: the same weeks in the same order with the same styles.
C11_RoundTrip ==
    Materialized =>
        LET forwards == one_week_forwards(weeks)
        IN  forwards.result = "Ok"
            => LET backwards == one_week_backwards(forwards.weeks)
               IN  /\ backwards.result = "Ok"
                   /\ backwards.weeks = weeks

\* C12: ensure_weeks(t) on a buffer of m < t weeks with fewer than t - m weeks
\* after its last week appends the weeks that exist after the last week and
\* takes the remainder from the weeks immediately before the old first week,
\* in date order; on the last week of the range the buffer grows backward only
\* and the old buffer is the tail of the new one.
C12_GrowsBackward ==
    [][op' = "ensure_weeks" /\ Materialized
        => LET ws     == weeks[1]
               m      == Len(ws)
               t      == arg'
               after  == WeeksAfter(Back(ws))
               before == Min(t - m - after, WeeksBefore(Front(ws)))
           IN  m < t /\ after < t - m
               => weeks'[1] = Run(SundayOf(Front(ws)) - DAYS_IN_WEEK * before, before)
                                \o ws
                                \o Run(SundayOf(Back(ws)) + DAYS_IN_WEEK, after)]_vars

\* C13: ensure_weeks(t) on a buffer of m weeks, with t <= m or with at least
\* t - m weeks after the last week, leaves exactly the t consecutive weeks
\* that begin at the old first week.
C13_KeepsFirstWeek ==
    [][op' = "ensure_weeks" /\ Materialized
        => LET ws == weeks[1]
               m  == Len(ws)
               t  == arg'
           IN  t <= m \/ WeeksAfter(Back(ws)) >= t - m
               => weeks'[1] = Run(SundayOf(Front(ws)), t)]_vars

\* The week of the range that holds a date
WeekOf(date) == WeekAt(date - index0(date))

Max(a, b) == IF a > b THEN a ELSE b

\* The window of count weeks around a date: (count - 1) \div 2 weeks before
\* the date's week and the rest after it, shifted to stay inside the range
\* and cut to the range when the range is shorter than count
Centred(date, count) ==
    LET n     == Min(count, NumWeeks)
        ideal == SundayOf(WeekOf(date)) - DAYS_IN_WEEK * ((count - 1) \div 2)
        last  == LastSunday - DAYS_IN_WEEK * (n - 1)
    IN  Run(Max(FirstSunday, Min(ideal, last)), n)

Contains(ws, week) == \E i \in 1..Len(ws) : ws[i] = week

\* C14: a new window has no buffer; the first ensure_weeks(n) materializes
\* the n weeks centred on the start date, which is today unless another start
\* date was given, and then it is the start date and not today that is centred.
C14_FirstEnsure ==
    [][/\ op = "new" => weeks = None
       /\ weeks = None /\ op' = "ensure_weeks"
            => /\ weeks' = Some(Centred(start_date, arg'))
               /\ Contains(weeks'[1], WeekOf(start_date))]_vars

C14_Witness ==
    /\ Materialized
    /\ op = "ensure_weeks"
    /\ Len(weeks[1]) = 2
    /\ weeks[1] = Centred(start_date, 2)
    /\ WeekOf(start_date) # WeekOf(today)
    /\ ~Contains(weeks[1], WeekOf(today))

\* C15: jump_to_today on a buffer of n weeks replaces it with the n weeks
\* centred on today: the length stays n and the buffer holds today's week;
\* no operation changes today.
C15_JumpToToday ==
    [][/\ today' = today
       /\ op' = "jump_to_today" /\ Materialized
            => /\ weeks'[1] = Centred(today, Len(weeks[1]))
               /\ Len(weeks'[1]) = Len(weeks[1])
               /\ Contains(weeks'[1], WeekOf(today))]_vars

\* C16: jump_to_date(d) on a buffer of n weeks replaces it with the n weeks
\* centred on d, for any representable d: the length stays n and today is
\* unchanged.
C16_JumpToDate ==
    [][op' = "jump_to_date" /\ Materialized
        => /\ weeks'[1] = Centred(arg', Len(weeks[1]))
           /\ Len(weeks'[1]) = Len(weeks[1])
           /\ Contains(weeks'[1], WeekOf(arg'))
           /\ today' = today]_vars

\* What around_date(date, count) must return: contiguous weeks in date order
\* that hold the date's week, count of them unless the range is shorter
AroundDateOK(date, count, ws) ==
    /\ Ascending(ws)
    /\ Contains(ws, WeekOf(date))
    /\ Len(ws) = IF count <= NumWeeks THEN count ELSE NumWeeks

\* C17: for every representable date and every count >= 1, around_date
\* returns exactly count contiguous weeks that hold the date's week, also
\* next to either end of the range; it returns fewer only when the whole
\* range holds fewer than count weeks.
C17_AroundDate ==
    [][/\ weeks = None /\ op' = "ensure_weeks"
            => AroundDateOK(start_date, arg', weeks'[1])
       /\ Materialized /\ op' = "jump_to_today"
            => AroundDateOK(today, Len(weeks[1]), weeks'[1])]_vars

C17_Witness ==
    /\ Materialized
    /\ op = "jump_to_today"
    /\ Len(weeks[1]) = NumWeeks - 1
    /\ WeekOf(today) = Back(weeks[1])
    /\ SundayOf(Back(weeks[1])) = LastSunday

\* C18: when around_date(date, count) is not cut short by either end of the
\* range, the date's week is at index (count - 1) \div 2 from the front.
C18_Centre ==
    [][/\ weeks = None /\ op' = "ensure_weeks"
            => LET week == WeekOf(start_date)
               IN  /\ WeeksBefore(week) >= (arg' - 1) \div 2
                   /\ WeeksAfter(week) >= arg' - 1 - (arg' - 1) \div 2
                   => weeks'[1][(arg' - 1) \div 2 + 1] = week
       /\ Materialized /\ op' = "jump_to_today"
            => LET week  == WeekOf(today)
                   count == Len(weeks[1])
               IN  /\ WeeksBefore(week) >= (count - 1) \div 2
                   /\ WeeksAfter(week) >= count - 1 - (count - 1) \div 2
                   => weeks'[1][(count - 1) \div 2 + 1] = week]_vars

C18_Witness ==
    /\ Materialized
    /\ op = "jump_to_today"
    /\ Len(weeks[1]) = NumWeeks
    /\ weeks[1][(NumWeeks - 1) \div 2 + 1] = WeekOf(today)

\* The key of a step that handles a key press with no modifier but Shift
NormalPress == event' # None /\ event'[1][1] = "Press" /\ event'[1][3] \subseteq normal_modifiers

C20_BellKeepsState ==
    [][/\ bell' => /\ inner' = inner
                   /\ weeks' = weeks
                   /\ today' = today
                   /\ start_date' = start_date
                   /\ pc = "input"
                   /\ pc' = "draw"
                   /\ inner' # Quitting
       /\ pc = "input" /\ event' # None /\ event'[1][1] = "Press"
            => LET key == event'[1][2]
               IN  /\ ~NormalPress => bell'
                   /\ NormalPress /\ inner = Calendar /\ key \in {"x", "Tab", "Enter", "-"}
                        => bell'
                   /\ NormalPress /\ inner = Calendar /\ key \in {"j", "z"}
                        /\ WeeksAfter(Back(weeks[1])) = 0 => bell'
                   /\ NormalPress /\ inner = Calendar /\ key \in {"Up", "PageUp"}
                        /\ WeeksBefore(Front(weeks[1])) = 0 => bell'
                   /\ NormalPress /\ inner[1] = "Jumping" /\ key \in {"j", "?", "Home"}
                        => bell'
                   /\ NormalPress /\ inner[1] = "Jumping" /\ key = "Enter"
                        /\ inner[2].pos < ENTER_POS => bell']_vars

C20_Witness ==
    /\ bell
    /\ event = Some(<<"Press", "Enter", {}>>)
    /\ inner[1] = "Jumping"
    /\ inner[2].pos = ENTER_POS
    /\ inner[2].negative
    /\ pc = "draw"

\* C21: while an overlay is open q and Esc close it instead of quitting: in
\* the help overlay every key press returns to calendar mode, in the
\* jump-to-date overlay q, g and Esc do; the buffer is unchanged and no
\* navigation operation runs.
C21_OverlayCloses ==
    [][pc = "input" /\ NormalPress
        /\ \/ inner = Helping
           \/ inner[1] = "Jumping" /\ event'[1][2] \in {"q", "g", "Esc"}
        => /\ inner' = Calendar
           /\ weeks' = weeks
           /\ op' = op
           /\ ~bell']_vars

C21_Witness ==
    /\ inner = Calendar
    /\ event = Some(<<"Press", "Esc", {}>>)
    /\ op = "ensure_weeks"
    /\ pc = "draw"

\* The date that the sign and the eight digits of a complete input spell:
\* year from the year digits, month from the month digits, day from the day
\* digits; None when they spell no date of the range
TypedDate(state) ==
    LET year0 == digits_value(state.year, 0)
        year  == IF state.negative THEN -year0 ELSE year0
        month == digits_value(state.month, 0)
        day   == digits_value(state.day, 0)
    IN  from_calendar_date(year, month, day)

\* A step that handles Enter in the jump-to-date overlay
EnterInOverlay ==
    /\ pc = "input"
    /\ NormalPress
    /\ event'[1][2] = "Enter"
    /\ inner[1] = "Jumping"

\* C22: Enter after all eight digits, when sign, YYYY, MM and DD spell a
\* valid date, jumps to exactly that date: the mode returns to Calendar and
\* the window is recentred on the entered year, month and day.
C22_EnterJumps ==
    [][EnterInOverlay /\ inner[2].pos = ENTER_POS /\ TypedDate(inner[2]) # None
        => /\ op' = "jump_to_date"
           /\ arg' = TypedDate(inner[2])[1]
           /\ inner' = Calendar
           /\ weeks'[1] = Centred(TypedDate(inner[2])[1], Len(weeks[1]))
           /\ ~bell']_vars

\* C23: Enter on a complete input that spells no valid date, or before all
\* eight digits are entered, is rejected: the bell rings, no jump happens,
\* the overlay stays open and the input is unchanged.
C23_EnterRejected ==
    [][EnterInOverlay /\ (inner[2].pos < ENTER_POS \/ TypedDate(inner[2]) = None)
        => /\ bell'
           /\ inner' = inner
           /\ weeks' = weeks
           /\ op' = op]_vars

\* The digit slot i (0..7) of a jump-to-date input: year 0-3, month 4-5, day 6-7
Slot(state, i) ==
    IF i < 4 THEN state.year[i + 1]
    ELSE IF i < 6 THEN state.month[i - 3]
    ELSE state.day[i - 5]

\* The slots below the cursor are filled and the others are empty
FilledBelowPos(state) ==
    /\ state.pos \in 0..ENTER_POS
    /\ \A i \in 0..(ENTER_POS - 1) : Slot(state, i) # None <=> i < state.pos

\* C30: in every reachable jump-to-date input 0 <= pos <= 8 and the digit
\* slots are filled exactly below pos: a digit fills slot pos and advances pos
\* (rejected at pos = 8), Backspace or Delete empties slot pos - 1 and moves
\* pos back (rejected at pos = 0).
C30_SlotsBelowPos ==
    [][/\ inner'[1] = "Jumping" => FilledBelowPos(inner'[2])
       /\ pc = "input" /\ NormalPress /\ inner[1] = "Jumping"
            => LET key    == event'[1][2]
                   before == inner[2]
                   after  == inner'[2]
               IN  /\ key \in DigitKeys /\ before.pos < ENTER_POS
                        => /\ inner'[1] = "Jumping"
                           /\ after.pos = before.pos + 1
                           /\ after.negative = before.negative
                           /\ \A i \in 0..(ENTER_POS - 1) :
                                Slot(after, i) = IF i = before.pos THEN Some(DigitOf(key))
                                                 ELSE Slot(before, i)
                           /\ ~bell'
                   /\ key \in DigitKeys /\ before.pos = ENTER_POS
                        => bell' /\ inner' = inner
                   /\ key \in {"Backspace", "Delete"} /\ before.pos >= 1
                        => /\ inner'[1] = "Jumping"
                           /\ after.pos = before.pos - 1
                           /\ after.negative = before.negative
                           /\ \A i \in 0..(ENTER_POS - 1) :
                                Slot(after, i) = IF i = after.pos THEN None
                                                 ELSE Slot(before, i)
                           /\ ~bell'
                   /\ key \in {"Backspace", "Delete"} /\ before.pos = 0
                        => bell' /\ inner' = inner]_vars

C30_Witness ==
    /\ inner[1] = "Jumping"
    /\ inner[2].pos = ENTER_POS - 1
    /\ event = Some(<<"Press", "Delete", {}>>)
    /\ ~bell

\* The first and the last week of the range, the two that can lack days
AtRangeEnd(week) == SundayOf(week) = FirstSunday \/ SundayOf(week) = LastSunday

C27_WeekRoundTrip ==
    Materialized =>
        \A i \in 1..Len(weeks[1]) :
            LET w == weeks[1][i]
            IN  /\ week_before(w) # None => week_after(week_before(w)[1]) = Some(w)
                /\ week_after(w) # None => week_before(week_after(w)[1]) = Some(w)

C27_Witness ==
    /\ Materialized
    /\ Len(weeks[1]) = 1
    /\ week_before(weeks[1][1]) # None
    /\ week_after(weeks[1][1]) # None
    /\ AtRangeEnd(week_before(weeks[1][1])[1])

C29_WeeksBeforeAfter ==
    Materialized =>
        \A w \in {Front(weeks[1]), Back(weeks[1])} : \A c \in 1..MaxQty :
            LET k == WeeksAfter(w)
                b == WeeksBefore(w)
            IN  /\ weeks_after(w, c) =
                      IF k = 0 THEN None
                      ELSE Some(Run(SundayOf(w) + DAYS_IN_WEEK, Min(c, k)))
                /\ weeks_before(w, c) =
                      IF b = 0 THEN None
                      ELSE Some(Run(SundayOf(w) - DAYS_IN_WEEK * Min(c, b), Min(c, b)))

C29_Witness ==
    /\ Materialized
    /\ Len(weeks[1]) = 1
    /\ WeeksBefore(weeks[1][1]) = 2
    /\ WeeksAfter(weeks[1][1]) = 1
    /\ Len(weeks_before(weeks[1][1], MaxQty)[1]) = 2


\* A step that renders the calendar widget
RenderStep == op' = "ensure_weeks" /\ frame' # None

\* The number of weeks that fit a height: the lines below the header,
\* halved and rounded up, and one week at the least
WeeksThatFit(height) ==
    LET below == IF height < 2 THEN 0 ELSE height - 2
        half  == -((-below) \div 2)
    IN  IF half < 1 THEN 1 ELSE half

WeeksForEveryHeight ==
    \A height \in U16 :
        /\ weeks_for_lines(height) = WeeksThatFit(height)
        /\ weeks_for_lines(height) \in 1..U16_MAX

\* C25: for every height of u16 the renderer asks the window for the
\* lines below the two header lines, halved and rounded up, and for one
\* week at the least: never for none, never past u16; for 24 lines it asks
\* for 11 weeks.
C25_WeeksForLines ==
    [][RenderStep =>
        /\ WeeksForEveryHeight
        /\ weeks_for_lines(24) = 11
        /\ arg' = WeeksThatFit(frame'[1].canvas.height)
        /\ arg' >= 1
        /\ Len(weeks'[1]) >= 1]_vars

C25_Witness ==
    /\ frame # None
    /\ frame[1].canvas.height = 24
    /\ op = "ensure_weeks"
    /\ arg = 11

InArea(cell, area) ==
    /\ cell[1] >= area.x
    /\ cell[1] < area.x + area.width
    /\ cell[2] >= area.y
    /\ cell[2] < area.y + area.height

\* No call of a render leaves u16 in a line or column computation
NoOverflow(calls, canvas) == \A call \in calls : ~Overflows(call, canvas)

\* Every cell a render writes lies in the area it was given
CellsInArea(calls, canvas, area) ==
    \A call \in calls : \A cell \in Cells(call, canvas) : InArea(cell, area)

\* Every call of a render is made for the header or for the row of a week
\* of the window
RowsExist(calls, ws) == \A call \in calls : call.row \in -1..(Len(ws) - 1)

\* C24: for every area, empty ones included, and every window, rendering
\* completes without error: no cell outside the area is written, no line or
\* column computation leaves u16, and only rows of weeks of the window are
\* addressed.
C24_RenderTotal ==
    [][RenderStep =>
        LET calls == render(weeks'[1], today')
        IN  /\ NoOverflow(calls, frame'[1].canvas)
            /\ CellsInArea(calls, frame'[1].canvas, frame'[1].area)
            /\ RowsExist(calls, weeks'[1])]_vars


\* ------------------------------------------------------------ margin labels
\* The dates of a week, and the first and the last of them
WeekDates(week) == {WeekGet(week, wd)[1].date : wd \in {w \in Sunday..Saturday : WeekGet(week, w) # None}}

FirstDate(week) == Flatten(week)[1].date

LastDate(week) == Flatten(week)[Len(Flatten(week))].date

\* The year labels of a render, as <<row, year>>, and its month names, as
\* <<row, month>>
YearLabels(calls) == {<<call.row, call.value>> : call \in {c \in calls : c.kind = "year"}}

MonthLabels(calls) == {<<call.row, call.value>> : call \in {c \in calls : c.kind = "month"}}

\* The first days of January in a week (one at most)
NewYearsDays(week) == {date \in WeekDates(week) : date_month(date) = 1 /\ date_day(date) = 1}

\* A step that renders the rows ws
Rendered(ws) == RenderStep /\ weeks'[1] = ws

C32_NewYearRow ==
    [][RenderStep =>
        LET ws     == weeks'[1]
            labels == YearLabels(render(ws, today'))
            top    == date_year(FirstDate(ws[1]))
        IN  /\ \A i \in 0..(Len(ws) - 1) :
                 NewYearsDays(ws[i + 1]) # {} =>
                    LET new_year == date_year(CHOOSE date \in NewYearsDays(ws[i + 1]) : TRUE)
                    IN  IF date_month(FirstDate(ws[i + 1])) = 1
                        THEN <<i, new_year>> \in labels
                        ELSE /\ <<i, new_year>> \notin labels
                             /\ i + 1 < Len(ws) => <<i + 1, new_year>> \in labels
                             /\ i + 1 >= Len(ws) => \A label \in labels : label[2] # new_year
            /\ <<0, top>> \in labels
            /\ \A label \in labels : label[1] = 0 => label[2] = top
            /\ (/\ epoch' = ordinal(2024, 12, 16)
                /\ FirstDate(ws[1]) = MinDate
                /\ Len(ws) = 4)
                  => /\ labels = {<<0, 2024>>, <<3, 2025>>}
                     /\ date_month(FirstDate(ws[4])) = 1
                     /\ date_day(FirstDate(ws[4])) = 5]_vars


\* A week whose last day lies in another month than the last day of the
\* week before it
EndsInNewMonth(before, week) ==
    date_month(LastDate(week)) # date_month(LastDate(before))

\* C33: a month name is drawn on row 0 and on exactly those further rows
\* whose week ends in another month than the row above; the name is the
\* month of the last day of the week; and for every two adjacent weeks of
\* the range the later one ends in another month exactly when it holds a
\* first day of a month, which is what the renderer tests.
C33_MonthNames ==
    [][RenderStep =>
        LET ws == weeks'[1]
        IN  /\ MonthLabels(render(ws, today')) =
                  {<<0, date_month(LastDate(ws[1]))>>}
                      \cup {<<i, date_month(LastDate(ws[i + 1]))>> :
                              i \in {j \in 1..(Len(ws) - 1) : EndsInNewMonth(ws[j], ws[j + 1])}}
            /\ \A day \in Dates :
                  week_after(make_table[day]) # None =>
                      (EndsInNewMonth(make_table[day], week_after(make_table[day])[1])
                          <=> has_month_start(week_after(make_table[day])[1]))]_vars


\* ------------------------------------------------------------ month borders
\* The line of a row of weeks and the column of the divider after a weekday
RowLine(row) == 2 * row + 2

DividerColumn(wd) == 6 + 7 * wd + 5

\* The borders of a render, as <<row, weekday>>: each has a horizontal rule
\* on the line below the row, from the left edge of the days to the divider
BorderMarks(calls) ==
    {<<call.row, (call.len - 5) \div 7>> :
        call \in {c \in calls :
                    /\ c.kind = "ACS_HLINE"
                    /\ c.row >= 0
                    /\ c.y = RowLine(c.row) + 1
                    /\ c.x = 6
                    /\ c.len \in {7 * wd + 5 : wd \in Sunday..Saturday}}}

\* The dividers and corners of a render
Glyphs(calls) ==
    {call \in calls : call.kind \in {"ACS_VLINE", "ACS_TTEE", "ACS_ULCORNER", "ACS_LRCORNER"}}

\* The <<row, weekday>> of the day cells of rows that hold a last day of a
\* month, the last date there is counting as one
MonthEnds(ws) ==
    {<<i, wd>> \in (0..(Len(ws) - 1)) \X (Sunday..Saturday) :
        /\ WeekGet(ws[i + 1], wd) # None
        /\ LET date == WeekGet(ws[i + 1], wd)[1].date
           IN  \/ date = MaxDate
               \/ date < MaxDate /\ date_month(date + 1) # date_month(date)}

\* The border before the first date there is: at the weekday before it on
\* its row, or on the row above when that weekday is a Saturday
BeforeTime(ws) ==
    {<<IF wd = Sunday THEN i - 1 ELSE i, (wd + 6) % 7>> :
        <<i, wd>> \in {p \in (0..(Len(ws) - 1)) \X (Sunday..Saturday) :
                        /\ WeekGet(ws[p[1] + 1], p[2]) = Some(style_date(MinDate))
                        /\ p \notin MonthEnds(ws)
                        /\ p[2] = Sunday => p[1] > 0}}

\* Borders marks with their glyphs, standing exactly at the places stated
BordersAsStated(marks, glyphs, stated) ==
    /\ marks = stated
    /\ \A mark \in marks :
         LET y == RowLine(mark[1])
             x == DividerColumn(mark[2])
         IN  IF mark[2] = Saturday
             THEN \A g \in glyphs : g.x # x
             ELSE /\ \E g \in glyphs : g.kind = "ACS_VLINE" /\ g.y = y /\ g.x = x
                  /\ \E g \in glyphs :
                        /\ g.kind = (IF mark[1] = 0 THEN "ACS_TTEE" ELSE "ACS_ULCORNER")
                        /\ g.y = y - 1
                        /\ g.x = x
                  /\ \E g \in glyphs : g.kind = "ACS_LRCORNER" /\ g.y = y + 1 /\ g.x = x
    /\ \A g \in glyphs :
         \E mark \in marks :
            /\ mark[2] # Saturday
            /\ g.x = DividerColumn(mark[2])
            /\ g.y \in {RowLine(mark[1]) - 1, RowLine(mark[1]), RowLine(mark[1]) + 1}

\* C34: a month border is drawn after a day cell exactly when the day is
\* the last of its month (the last date there is counts as one), and, when
\* the first date there is is shown, at the weekday before it, on its row or
\* on the row above when that weekday is a Saturday and the row exists. A
\* border after a Saturday has no divider and no corners, only the rule
\* below the row; every other border has a divider on the row, a corner or
\* tee above and a corner below.
C34_MonthBorders ==
    [][RenderStep =>
        \A calls \in {render(weeks'[1], today')} :
            \A marks \in {BorderMarks(calls)} :
                \A glyphs \in {Glyphs(calls)} :
                    BordersAsStated(marks, glyphs,
                                    MonthEnds(weeks'[1]) \cup BeforeTime(weeks'[1]))]_vars

\* A rendered window that shows the first date there is with the border
\* before it, a month that ends on a Saturday, and the last date there is
C34_Witness ==
    /\ frame # None
    /\ op = "ensure_weeks"
    /\ LET marks == BorderMarks(render(weeks[1], today))
       IN  /\ WeekGet(weeks[1][1], index0(MinDate)) = Some(style_date(MinDate))
           /\ <<0, Sunday>> \in marks
           /\ \E i \in 1..(Len(weeks[1]) - 1) :
                /\ <<i, Saturday>> \in marks
                /\ date_day(WeekGet(weeks[1][i + 1], Saturday)[1].date) = 31
           /\ \E i \in 1..(Len(weeks[1]) - 1) :
                /\ <<i, index0(MaxDate)>> \in marks
                /\ WeekGet(weeks[1][i + 1], index0(MaxDate)) = Some(style_date(MaxDate))


\* ---------------------------------------------------------------- the loop
\* The operations of the window that a key can start
Navigation ==
    {"one_week_forwards", "one_week_backwards", "one_page_forwards",
     "one_page_backwards", "jump_to_today", "jump_to_date"}

\* An event that is not a key press has just been read
OtherEventRead == pc = "draw" /\ event # None /\ event[1][1] # "Press"

\* C35: every draw calls ensure_weeks and every input event is handled
\* right after a draw, so the buffer is materialized before the first
\* scroll, page or jump; an iteration of the loop is a draw, then one read,
\* then at most one operation on the window; an event that is not a key
\* press changes no state and rings no bell, and a redraw follows it.
C35_DrawThenInput ==
    /\ [][/\ pc = "draw" /\ pc' # "done" =>
                /\ pc' = "input"
                /\ op' = "ensure_weeks"
                /\ weeks' # None
          /\ pc = "input" =>
                /\ op = "ensure_weeks"
                /\ weeks # None
                /\ pc' = "draw"
                /\ event' # None
                /\ UNCHANGED wvars \/ op' \in Navigation
          /\ pc = "input" /\ event'[1][1] # "Press" =>
                /\ UNCHANGED <<wvars, inner>>
                /\ bell' = FALSE
          /\ pc # "done"]_vars
    /\ OtherEventRead ~> pc = "input"

\* A resize has been read after a scroll, and the loop is about to draw
C35_Witness ==
    /\ OtherEventRead
    /\ event = Some(<<"Resize">>)
    /\ op = "ensure_weeks"
    /\ Len(weeks[1]) = 3
    /\ weeks[1][1] # WeekOf(today)
    /\ ~bell

\* The operations of the window that move it without a date being given
Moves == Navigation \ {"jump_to_date"}

\* C36: before the first ensure_weeks every scroll, page and jump to today
\* reports success, leaves the window without a buffer and changes neither
\* today nor the start date; the first ensure_weeks(n) after such operations
\* still builds around_date(start_date, n), the n weeks centred on the start
\* date, and a one-week window then shows the start date's week and not
\* today's when the two differ.
C36_MovesBeforeEnsure ==
    [][/\ weeks = None /\ op' \in Moves =>
            /\ result' = "Ok"
            /\ weeks' = None
            /\ UNCHANGED <<today, start_date, target, epoch>>
       /\ weeks = None /\ op \in Moves /\ op' = "ensure_weeks" =>
            /\ weeks' = Some(around_date(start_date, arg'))
            /\ weeks' = Some(Centred(start_date, arg'))
            /\ Contains(weeks'[1], WeekOf(start_date))
            /\ arg' = 1 /\ WeekOf(today) # WeekOf(start_date) =>
                    ~Contains(weeks'[1], WeekOf(today))]_vars

\* A jump to today has been made on a window that has no buffer yet and
\* whose start date lies in another week than today
C36_Witness ==
    /\ weeks = None
    /\ op = "jump_to_today"
    /\ result = "Ok"
    /\ WeekOf(start_date) # WeekOf(today)

\* The weeks the factory has produced in a state: those of the buffer, the
\* weeks built for today and for the start date, and the weeks before and
\* after each of them
Produced ==
    LET held == {make(today), make(start_date)} \cup
                (IF Materialized THEN {weeks[1][i] : i \in 1..Len(weeks[1])} ELSE {})
        step == {week_before(w) : w \in held} \cup {week_after(w) : w \in held}
    IN  held \cup {s[1] : s \in step \ {None}}

\* The days of one Sunday-to-Saturday week, by slot
SundayToSaturday(sunday) == [j \in 1..DAYS_IN_WEEK |-> sunday + j - 1]

\* C37: every week the factory produces has at least one day; its slots are
\* the days of one Sunday-to-Saturday week, slot i holding the day whose
\* weekday is i and being empty exactly when that day is outside the range;
\* only the first and the last week of the range lack a day; week_before is
\* none exactly when the Sunday slot is empty or holds the minimum date, and
\* week_after is none exactly when the Saturday slot is empty or holds the
\* maximum date.
C37_FactoryWeeks ==
    \A w \in Produced :
        /\ \E j \in 1..DAYS_IN_WEEK : w[j] # None
        /\ \E sunday \in (MinDate - DAYS_IN_WEEK)..MaxDate :
                /\ index0(sunday) = Sunday
                /\ \A j \in 1..DAYS_IN_WEEK :
                        LET d == SundayToSaturday(sunday)[j]
                        IN  /\ w[j] = None <=> d \notin Dates
                            /\ w[j] # None =>
                                    /\ w[j][1].date = d
                                    /\ index0(w[j][1].date) = j - 1
        /\ (\E j \in 1..DAYS_IN_WEEK : w[j] = None) =>
                \E j \in 1..DAYS_IN_WEEK :
                    w[j] # None /\ w[j][1].date \in {MinDate, MaxDate}
        /\ week_before(w) = None <=>
                \/ WeekGet(w, Sunday) = None
                \/ WeekGet(w, Sunday)[1].date = MinDate
        /\ week_after(w) = None <=>
                \/ WeekGet(w, Saturday) = None
                \/ WeekGet(w, Saturday)[1].date = MaxDate

\* The buffer runs from the partial first week of the range, which has no
\* Sunday and no week before it, to the partial last week, which has no
\* Saturday and no week after it
C37_Witness ==
    /\ Materialized
    /\ WeekGet(Front(weeks[1]), Sunday) = None
    /\ week_before(Front(weeks[1])) = None
    /\ WeekGet(Back(weeks[1]), Saturday) = None
    /\ week_after(Back(weeks[1])) = None
    /\ Len(weeks[1]) = NumWeeks

\* The keys that quit
QuitKeys == {"q", "Esc"}

\* The event read in this step is a key press the dispatcher is given
KeyHandled(ev) ==
    /\ ev # None
    /\ ev[1][1] = "Press"
    /\ ev[1][3] \subseteq normal_modifiers

\* C38: the loop ends exactly when the mode is Quitting. q or Esc in the
\* calendar makes the mode Quitting in one step and nothing else does; once
\* the mode is Quitting the loop ends without another draw or read, and
\* every key given to the state from then on is rejected and changes
\* nothing.
C38_Quit ==
    [][/\ pc = "input" /\ inner = Calendar /\ KeyHandled(event')
            /\ event'[1][2] \in QuitKeys =>
                /\ inner' = Quitting
                /\ pc' = "draw"
                /\ ~bell'
                /\ UNCHANGED wvars
       /\ inner # Quitting /\ inner' = Quitting =>
                /\ inner = Calendar
                /\ pc = "input"
                /\ KeyHandled(event')
                /\ event'[1][2] \in QuitKeys
       /\ inner = Quitting =>
                /\ inner' = Quitting
                /\ pc' = "done"
                /\ UNCHANGED <<wvars, event, frame>>
       /\ pc = "done" => bell'
       /\ pc' = "done" => inner = Quitting
       /\ pc = "draw" /\ pc' = "input" => inner # Quitting]_vars

\* Esc was read in the calendar, the loop has ended, and a key given to the
\* state afterwards has been rejected
C38_Witness ==
    /\ pc = "done"
    /\ inner = Quitting
    /\ event = Some(<<"Press", "Esc", {}>>)
    /\ bell
    /\ Materialized

\* The key code that a key name of the help text stands for
KeyNamed(label) ==
    CASE label = "UP"        -> "Up"
      [] label = "DOWN"      -> "Down"
      [] label = "PAGE UP"   -> "PageUp"
      [] label = "PAGE DOWN" -> "PageDown"
      [] label = "HOME"      -> "Home"
      [] label = "ESC"       -> "Esc"
      [] OTHER               -> label

\* What a step does when it does the action that a line of the help text names
Performs(action) ==
    CASE action = "Scroll up one week"   -> op' = "one_week_backwards"
      [] action = "Scroll down one week" -> op' = "one_week_forwards"
      [] action = "Scroll up one page"   -> op' = "one_page_backwards"
      [] action = "Scroll down one page" -> op' = "one_page_forwards"
      [] action = "Jump to today"        -> op' = "jump_to_today"
      [] action = "Show this help"       -> inner' = Helping
      [] action = "Quit"                 -> inner' = Quitting

\* C39: for every key that the help text lists, the action the text names
\* for it (scroll up or down one week, scroll up or down one page, jump to
\* today, show help, quit) is what handle_key does for that key in the
\* calendar, scrolling down being one week forwards and scrolling up one
\* week backwards.
C39_HelpNamesKeys ==
    [][\A i \in 1..Len(TEXT) : \A n \in 1..Len(TEXT[i].keys) :
            /\ pc = "input"
            /\ inner = Calendar
            /\ KeyHandled(event')
            /\ event'[1][2] = KeyNamed(TEXT[i].keys[n])
            => Performs(TEXT[i].action)]_vars

\* C40: whenever the help overlay is drawn, whatever the size of the
\* terminal, its left and top offsets are computed without leaving u16:
\* area.width - width and area.height - height are not negative.
C40_HelpOffsets ==
    pc = "input" /\ inner = Helping /\ frame # None =>
        ~HelpUnderflows(frame[1].area)

====
